---- MODULE Spec2Model ----
(***************************************************************************)
(* Model of src/app.py, the RATP water-fountain dashboard: the data        *)
(* preparation (load_and_prepare_data), the three filter widgets, the      *)
(* per-run chart inputs (value_counts, the custom legend order) and the    *)
(* "top lines" ranking.  A Streamlit script is re-executed from top to     *)
(* bottom on every widget interaction, so one action is one script run.    *)
(*                                                                         *)
(* Text is modelled as a sequence of one-character strings ("1bis" is      *)
(* <<"1","b","i","s">>) so that isdigit, slicing, int() and the lexical    *)
(* comparison of Python strings are computed, not assumed.                 *)
(* A missing CSV cell (pandas NaN) is the value NaN.                       *)
(* The half-integer key N + 0.5 of sort_key is kept exact by doubling      *)
(* every numeric key: N is 2N and N + 0.5 is 2N + 1.                       *)
(***************************************************************************)
EXTENDS Integers, Sequences, FiniteSets

VARIABLES pc, error, ncols, raw, df, selected_lines, selected_type,
          selected_zone, df_filtered, line_counts, zone_counts,
          category_orders, top_lines, top_text

vars == <<pc, error, ncols, raw, df, selected_lines, selected_type,
          selected_zone, df_filtered, line_counts, zone_counts,
          category_orders, top_lines, top_text>>

(***************************************************************************)
(* Bounds of the model and constants of the program.                       *)
(***************************************************************************)
MaxRows == 2

MaxFirstRows == 4

MaxTopRows == 6

NCOLS == 13

TOP_CHART == 10

TOP_TEXT == 4

NaN == "NaN"

ZONE_DEFAULT == "non renseigné"

NOM_DEFAULT == "Non spécifié"

ZONE_CTRL == "en zone contrôlée"

TYPE_ALL == "Tous"

ZONE_ALL == "Toutes"

TypeOptions == {"Tous", "Métro", "RER"}

ZoneOptions == {"Toutes", "en zone contrôlée", "non renseigné"}

RER_LINES == {<<"A">>, <<"B">>, <<"C">>, <<"D">>, <<"E">>}

(***************************************************************************)
(* Line identifiers of the model's inputs.                                 *)
(***************************************************************************)
L1 == <<"1">>

L1bis == <<"1", "b", "i", "s">>

L2 == <<"2">>

L10 == <<"1", "0">>

LA == <<"A">>

LB == <<"B">>

Lines == {L1, L1bis, L2, L10, LA, LB}

(***************************************************************************)
(* Python text primitives.                                                 *)
(***************************************************************************)
Digits == {"0", "1", "2", "3", "4", "5", "6", "7", "8", "9"}

DigitVal(c) ==
    CASE c = "0" -> 0 [] c = "1" -> 1 [] c = "2" -> 2 [] c = "3" -> 3
      [] c = "4" -> 4 [] c = "5" -> 5 [] c = "6" -> 6 [] c = "7" -> 7
      [] c = "8" -> 8 [] c = "9" -> 9

\* The code point of a character (ord), for the characters line ids use.
Code(c) ==
    CASE c \in Digits -> 48 + DigitVal(c)
      [] c = "A" -> 65 [] c = "B" -> 66 [] c = "C" -> 67
      [] c = "D" -> 68 [] c = "E" -> 69
      [] c = "b" -> 98 [] c = "i" -> 105 [] c = "s" -> 115

\* str.isdigit(): non-empty and every character a digit.
IsDigit(s) == Len(s) > 0 /\ \A i \in 1..Len(s) : s[i] \in Digits

\* int(s) for a digit string.
RECURSIVE IntOf(_)
IntOf(s) ==
    IF Len(s) = 0 THEN 0
    ELSE 10 * IntOf(SubSeq(s, 1, Len(s) - 1)) + DigitVal(s[Len(s)])

\* s[:-3]
DropLast3(s) == IF Len(s) <= 3 THEN <<>> ELSE SubSeq(s, 1, Len(s) - 3)

\* s.endswith('bis')
EndsWithBis(s) ==
    Len(s) >= 3 /\ SubSeq(s, Len(s) - 2, Len(s)) = <<"b", "i", "s">>

\* a < b on Python strings: code-point lexicographic order.
RECURSIVE StrLess(_, _)
StrLess(a, b) ==
    IF Len(b) = 0 THEN FALSE
    ELSE IF Len(a) = 0 THEN TRUE
    ELSE IF Code(a[1]) # Code(b[1]) THEN Code(a[1]) < Code(b[1])
    ELSE StrLess(Tail(a), Tail(b))

(***************************************************************************)
(* create_map_visualization.sort_key and the orders built on it.           *)
(***************************************************************************)
sort_key(ligne) ==
    IF IsDigit(ligne)
    THEN [grp |-> 0, num2 |-> 2 * IntOf(ligne), str |-> <<>>]
    ELSE IF IsDigit(DropLast3(ligne)) /\ EndsWithBis(ligne)
    THEN [grp |-> 0, num2 |-> 2 * IntOf(DropLast3(ligne)) + 1, str |-> <<>>]
    ELSE [grp |-> 1, num2 |-> 0, str |-> ligne]

\* Mutant of KeyLess: the text keys of the third branch compared in descending
\* order.
KeyLessTextDescending(a, b) ==
    \/ a.grp < b.grp
    \/ /\ a.grp = b.grp
       /\ IF a.grp = 0 THEN a.num2 < b.num2 ELSE StrLess(b.str, a.str)

\* Python's comparison of the key tuples (0, n) and (1, text).
KeyLess(a, b) ==
    \/ a.grp < b.grp
    \/ /\ a.grp = b.grp
       /\ IF a.grp = 0 THEN a.num2 < b.num2 ELSE StrLess(a.str, b.str)

\* Insertion of x into a list already ordered by sort_key, after its equals.
RECURSIVE InsertByKey(_, _)
InsertByKey(x, s) ==
    IF Len(s) = 0 THEN <<x>>
    ELSE IF KeyLess(sort_key(x), sort_key(s[1])) THEN <<x>> \o s
    ELSE <<s[1]>> \o InsertByKey(x, Tail(s))

\* sorted(s, key=sort_key): Python's sort is stable.
RECURSIVE SortedByKey(_)
SortedByKey(s) ==
    IF Len(s) = 0 THEN <<>>
    ELSE InsertByKey(s[Len(s)], SortedByKey(SubSeq(s, 1, Len(s) - 1)))

Range(s) == {s[i] : i \in 1..Len(s)}

\* Series.unique(): the distinct values in order of first appearance.
RECURSIVE Unique(_)
Unique(s) ==
    IF Len(s) = 0 THEN <<>>
    ELSE LET u == Unique(SubSeq(s, 1, Len(s) - 1))
         IN IF s[Len(s)] \in Range(u) THEN u ELSE Append(u, s[Len(s)])

Column(d, f) == [i \in 1..Len(d) |-> d[i][f]]

(***************************************************************************)
(* load_and_prepare_data.                                                  *)
(***************************************************************************)
\* Mutant of ColumnsAssignable: a wider frame is accepted.
ColumnsAtLeast(n) == n >= NCOLS

\* df.columns = [13 names] raises ValueError unless the frame has 13 columns.
ColumnsAssignable(n) == n = NCOLS

\* Series.fillna(value)
FillNa(v, value) == IF v = NaN THEN value ELSE v

type_ligne(x) == IF x \in RER_LINES THEN "RER" ELSE "Métro"

\* Mutant of region: the upper bound 76000 taken as inclusive.
region_inclusive(x) == IF x >= 75000 /\ x <= 76000 THEN "Paris" ELSE "Banlieue"

region(x) == IF x >= 75000 /\ x < 76000 THEN "Paris" ELSE "Banlieue"

\* read_csv infers int64 for a column whose every cell is an integer, and
\* keeps the cells as text otherwise.
IsIntColumn(col) == \A i \in 1..Len(col) : IsDigit(col[i])

\* Mutant of LigneLess: the descending order (ascending=False).
LigneGreater(intcol, a, b) ==
    IF intcol THEN IntOf(b) < IntOf(a) ELSE StrLess(b, a)

\* The order sort_values and sort_index use on the 'ligne' values.
LigneLess(intcol, a, b) ==
    IF intcol THEN IntOf(a) < IntOf(b) ELSE StrLess(a, b)

\* Mutant of PrepareRows: the two fill values exchanged.
PrepareRowsSwapped(rows) ==
    [i \in 1..Len(rows) |->
        [idx            |-> i,
         ligne          |-> rows[i].ligne,
         code_postal    |-> rows[i].code_postal,
         nom_acces      |-> FillNa(rows[i].nom_acces, ZONE_DEFAULT),
         zone_controlee |-> FillNa(rows[i].zone_controlee, NOM_DEFAULT),
         type_ligne     |-> type_ligne(rows[i].ligne),
         region         |-> region(rows[i].code_postal)]]

\* The frame before the sort: idx is the RangeIndex label of the row.
PrepareRows(rows) ==
    [i \in 1..Len(rows) |->
        [idx            |-> i,
         ligne          |-> rows[i].ligne,
         code_postal    |-> rows[i].code_postal,
         nom_acces      |-> FillNa(rows[i].nom_acces, NOM_DEFAULT),
         zone_controlee |-> FillNa(rows[i].zone_controlee, ZONE_DEFAULT),
         type_ligne     |-> type_ligne(rows[i].ligne),
         region         |-> region(rows[i].code_postal)]]

\* df.sort_values('ligne') with the default kind='quicksort', which is not a
\* stable sort: every arrangement that is ascending in 'ligne' is an outcome.
RECURSIVE SortValuesOutcomes(_, _)
SortValuesOutcomes(S, intcol) ==
    IF S = {} THEN {<<>>}
    ELSE LET mins == {r \in S : \A q \in S :
                         ~LigneLess(intcol, q.ligne, r.ligne)}
         IN UNION {{<<r>> \o t : t \in SortValuesOutcomes(S \ {r}, intcol)}
                      : r \in mins}

load_and_prepare_data(rows) ==
    SortValuesOutcomes(Range(PrepareRows(rows)),
                       IsIntColumn(Column(rows, "ligne")))

(***************************************************************************)
(* Aggregations.                                                           *)
(***************************************************************************)
Occurrences(col, v) == Cardinality({i \in 1..Len(col) : col[i] = v})

CountsOf(col) == {[value |-> v, count |-> Occurrences(col, v)] : v \in Range(col)}

\* The arrangements of a set of (value, count) entries by descending count.
RECURSIVE DescendingOutcomes(_)
DescendingOutcomes(S) ==
    IF S = {} THEN {<<>>}
    ELSE LET maxs == {e \in S : \A q \in S : q.count <= e.count}
         IN UNION {{<<e>> \o t : t \in DescendingOutcomes(S \ {e})}
                      : e \in maxs}

\* Series.value_counts(): counts by descending count; the sort is the
\* default quicksort, so entries with equal counts come in any order.
value_counts(col) == DescendingOutcomes(CountsOf(col))

\* Series.sort_index() of a value_counts result over 'ligne'.
RECURSIVE SortIndex(_, _)
SortIndex(S, intcol) ==
    IF S = {} THEN <<>>
    ELSE LET e == CHOOSE x \in S : \A q \in S :
                      ~LigneLess(intcol, q.value, x.value)
         IN <<e>> \o SortIndex(S \ {e}, intcol)

\* Mutant of Head_n: Series.tail(n), the last n entries.
Tail_n(s, n) == IF Len(s) <= n THEN s ELSE SubSeq(s, Len(s) - n + 1, Len(s))

\* Series.head(n)
Head_n(s, n) == IF Len(s) <= n THEN s ELSE SubSeq(s, 1, n)

(***************************************************************************)
(* The filters of the dashboard tab.                                       *)
(***************************************************************************)
IsinLines(d, lines) == SelectSeq(d, LAMBDA r : r.ligne \in lines)

TypeFilter(d, t) ==
    IF t # TYPE_ALL THEN SelectSeq(d, LAMBDA r : r.type_ligne = t) ELSE d

\* Mutant of ZoneFilter: the comparison negated.
ZoneFilterNegated(d, z) ==
    IF z # ZONE_ALL THEN SelectSeq(d, LAMBDA r : r.zone_controlee # z) ELSE d

ZoneFilter(d, z) ==
    IF z # ZONE_ALL THEN SelectSeq(d, LAMBDA r : r.zone_controlee = z) ELSE d

\* Mutant of FilterRows: the zone predicate applied to the whole frame
\* instead of to the rows filtered so far.
FilterRowsZoneOnFrame(d, lines, t, z) ==
    IF z # ZONE_ALL
    THEN SelectSeq(d, LAMBDA r : r.zone_controlee = z)
    ELSE TypeFilter(IsinLines(d, lines), t)

FilterRows(d, lines, t, z) == ZoneFilter(TypeFilter(IsinLines(d, lines), t), z)

\* create_map_visualization: the 'ligne' column of df_sorted, the copy sorted
\* by sort_key.  The sort is again the default, unstable one, which may permute
\* only rows of equal key; the line ids of the inputs have pairwise distinct
\* keys, so rows of equal key hold the same 'ligne' and the column is the same
\* in every outcome.
SortedLigne(d) == SortedByKey(Column(d, "ligne"))

\* category_orders: sorted(df_sorted['ligne'].unique(), key=sort_key)
CategoryOrders(d) == SortedByKey(Unique(SortedLigne(d)))

(***************************************************************************)
(* Inputs.                                                                 *)
(***************************************************************************)
RawRow(l, cp, nom, zone) ==
    [ligne |-> l, code_postal |-> cp, nom_acces |-> nom, zone_controlee |-> zone]

RawPool ==
    { RawRow(L1,    75000, "Accès 1", ZONE_DEFAULT),
      RawRow(L10,   75999, NaN,       NaN),
      RawRow(L1bis, 74999, NaN,       ZONE_CTRL),
      RawRow(LA,    75000, "Accès 1", NaN),
      RawRow(LB,    76000, NaN,       ZONE_CTRL) }

FirstRow(l) == RawRow(l, 75000, "Accès 1", ZONE_CTRL)

FirstPool == {FirstRow(l) : l \in Lines}

SeqsUpTo(S, n) == UNION {[1..k -> S] : k \in 1..n}

\* The lines in the order a CSV lists them: the list 2, 1, 1bis, A, 10 and B.
FileOrder == <<L2, L1, L1bis, LA, L10, LB>>

\* The CSVs of at most n rows whose lines come in FileOrder from position p on,
\* each line on any number of rows: one CSV for every count of rows per line.
RECURSIVE RowsInFileOrder(_, _)
RowsInFileOrder(n, p) ==
    IF n = 0 THEN {<<>>}
    ELSE {<<>>} \cup
         UNION {{<<FirstRow(FileOrder[q])>> \o t : t \in RowsInFileOrder(n - 1, q)}
                   : q \in p..Len(FileOrder)}

(***************************************************************************)
(* The script.                                                             *)
(***************************************************************************)
Unset ==
    /\ df = <<>> /\ selected_lines = {} /\ selected_type = TYPE_ALL
    /\ selected_zone = ZONE_ALL /\ df_filtered = <<>> /\ line_counts = <<>>
    /\ zone_counts = <<>> /\ category_orders = <<>> /\ top_lines = <<>>
    /\ top_text = <<>>

Init ==
    /\ pc = "start" /\ error = "none"
    /\ ncols \in (NCOLS - 1)..(NCOLS + 1)
    /\ raw \in SeqsUpTo(RawPool, MaxRows)
    /\ Unset

InitFirst ==
    /\ pc = "start" /\ error = "none"
    /\ ncols = NCOLS
    /\ raw \in SeqsUpTo(FirstPool, MaxFirstRows)
    /\ Unset

InitTop ==
    /\ pc = "start" /\ error = "none"
    /\ ncols = NCOLS
    /\ raw \in RowsInFileOrder(MaxTopRows, 1) \ {<<>>}
    /\ Unset

\* The filter expression as a function: a prepared frame and a selection of
\* any line ids, those of no row included, with any type and zone value.
InitFilter ==
    /\ pc = "filter" /\ error = "none"
    /\ ncols = NCOLS
    /\ raw \in SeqsUpTo(RawPool, MaxRows)
    /\ df \in load_and_prepare_data(raw)
    /\ selected_lines \in SUBSET Lines
    /\ selected_type \in TypeOptions
    /\ selected_zone \in ZoneOptions
    /\ df_filtered = <<>> /\ line_counts = <<>> /\ zone_counts = <<>>
    /\ category_orders = <<>> /\ top_lines = <<>> /\ top_text = <<>>

\* The dashboard tab of one script run over the prepared frame d.
Dashboard(d, lines, t, z) ==
    /\ selected_lines' = lines
    /\ selected_type' = t
    /\ selected_zone' = z
    /\ LET f == FilterRows(d, lines, t, z)
       IN /\ df_filtered' = f
          /\ line_counts' = SortIndex(CountsOf(Column(f, "ligne")),
                                      IsIntColumn(Column(d, "ligne")))
          /\ zone_counts' \in value_counts(Column(f, "zone_controlee"))
          /\ category_orders' = CategoryOrders(f)

\* The analysis tab: the top lines of the whole frame.
Analysis(d) ==
    \E vc \in value_counts(Column(d, "ligne")) :
        /\ top_lines' = Head_n(vc, TOP_CHART)
        /\ top_text' = Head_n(vc, TOP_TEXT)

\* First run of the script: the frame is loaded and cached, the widgets
\* hold their defaults.
FirstRun ==
    /\ pc = "start"
    /\ ColumnsAssignable(ncols)
    /\ \E d \in load_and_prepare_data(raw) :
          /\ df' = d
          /\ Dashboard(d, Range(Column(d, "ligne")), TYPE_ALL, ZONE_ALL)
          /\ Analysis(d)
    /\ pc' = "ready"
    /\ UNCHANGED <<error, ncols, raw>>

\* First run on a frame of another width: the column assignment raises and
\* the script stops at line 190.
FirstRunFail ==
    /\ pc = "start"
    /\ ~ColumnsAssignable(ncols)
    /\ pc' = "failed"
    /\ error' = "ValueError"
    /\ UNCHANGED <<ncols, raw, df, selected_lines, selected_type,
                   selected_zone, df_filtered, line_counts, zone_counts,
                   category_orders, top_lines, top_text>>

\* Mutant of Rerun: the filter result assigned to df itself.
RerunInPlace(lines, t, z) ==
    /\ pc = "ready"
    /\ Dashboard(df, lines, t, z)
    /\ df' = FilterRows(df, lines, t, z)
    /\ UNCHANGED <<pc, error, ncols, raw, top_lines, top_text>>

\* A widget interaction: the script runs again with the cached frame and the
\* values the widgets now return.
\* The analysis tab is a function of the unchanged frame and shows what it
\* showed.
Rerun(lines, t, z) ==
    /\ pc = "ready"
    /\ Dashboard(df, lines, t, z)
    /\ UNCHANGED <<pc, error, ncols, raw, df, top_lines, top_text>>

\* The multiselect returns a sublist of its options, the lines present in df,
\* and each selectbox one of its options; a run takes whatever the three
\* widgets return, whatever the previous run's values were.
Next ==
    \/ FirstRun
    \/ FirstRunFail
    \/ \E lines \in SUBSET Range(Column(df, "ligne")),
          t \in TypeOptions, z \in ZoneOptions :
           Rerun(lines, t, z)

NextFirst == FirstRun

\* Mutant of FilterEval: the largest per-line count is taken, which raises on
\* the counts of an empty view as line 338 does on those of an empty frame.
FilterEvalMaxOfCounts ==
    /\ pc = "filter"
    /\ IF FilterRows(df, selected_lines, selected_type, selected_zone) = <<>>
       THEN /\ pc' = "failed"
            /\ error' = "ValueError"
            /\ UNCHANGED <<selected_lines, selected_type, selected_zone,
                           df_filtered, line_counts, zone_counts,
                           category_orders>>
       ELSE /\ Dashboard(df, selected_lines, selected_type, selected_zone)
            /\ pc' = "ready"
            /\ UNCHANGED error
    /\ UNCHANGED <<ncols, raw, df, top_lines, top_text>>

\* Lines 252-258 and the dashboard tab's computations on their result, for
\* the selection given: no statement of them has a raising outcome.
FilterEval ==
    /\ pc = "filter"
    /\ Dashboard(df, selected_lines, selected_type, selected_zone)
    /\ pc' = "ready"
    /\ UNCHANGED <<error, ncols, raw, df, top_lines, top_text>>

NextFilter == FilterEval

NextTop == FirstRun

Spec == Init /\ [][Next]_vars

SpecFirst == InitFirst /\ [][NextFirst]_vars

SpecTop == InitTop /\ [][NextTop]_vars

SpecFilter == InitFilter /\ [][NextFilter]_vars

(***************************************************************************)
(* Properties.                                                             *)
(***************************************************************************)
Ready == pc = "ready"

FirstIndex(col, v) ==
    CHOOSE i \in 1..Len(col) : col[i] = v /\ \A j \in 1..(i - 1) : col[j] # v

\* Entries of equal count are in the order their values first appear in col.
KeptOrder(vc, col) ==
    \A i, j \in 1..Len(vc) :
        (i < j /\ vc[i].count = vc[j].count)
            => FirstIndex(col, vc[i].value) < FirstIndex(col, vc[j].value)

\* The runs in which every default sort left equal keys in their input order,
\* which is what numpy's quicksort does on arrays as short as these.
TiesKept ==
    /\ \A i, j \in 1..Len(df) :
          (i < j /\ df[i].ligne = df[j].ligne) => df[i].idx < df[j].idx
    /\ KeptOrder(top_lines, Column(df, "ligne"))
    /\ KeptOrder(top_text, Column(df, "ligne"))
    /\ KeptOrder(zone_counts, Column(df_filtered, "zone_controlee"))

\* The records of the frame that a selection admits, as the specification
\* states the conjunction.
Admitted(lines, t, z) ==
    {r \in Range(df) :
        /\ r.ligne \in lines
        /\ (t = "Tous" \/ r.type_ligne = t)
        /\ (z = "Toutes" \/ r.zone_controlee = z)}

\* C1: a record of the prepared frame is in the filtered view iff its line is
\* selected and it has the chosen type (or the type filter is "Tous") and the
\* chosen zone status (or the zone filter is "Toutes"); the view holds no
\* other record and no record twice.
C1_FilterIff ==
    Ready =>
        /\ Range(df_filtered) = Admitted(selected_lines, selected_type, selected_zone)
        /\ Len(df_filtered) = Cardinality(Range(df_filtered))

C1_Witness ==
    /\ Ready /\ TiesKept
    /\ selected_type # "Tous" /\ selected_zone # "Toutes"
    /\ df_filtered # <<>>
    /\ \E r \in Range(df) :
          /\ r.ligne \in selected_lines
          /\ r.type_ligne = selected_type
          /\ r.zone_controlee # selected_zone

\* C2: the filtered view is contained in the view of the same selection with
\* the type filter relaxed to "Tous", in the view with the zone filter relaxed
\* to "Toutes", and in the records admitted by line membership alone.
C2_NarrowingNeverGrows ==
    Ready =>
        /\ Range(df_filtered) \subseteq Admitted(selected_lines, "Tous", selected_zone)
        /\ Range(df_filtered) \subseteq Admitted(selected_lines, selected_type, "Toutes")
        /\ Range(df_filtered) \subseteq Admitted(selected_lines, "Tous", "Toutes")

C2_Witness ==
    /\ Ready /\ TiesKept
    /\ selected_zone # "Toutes"
    /\ df_filtered # <<>>
    /\ Cardinality(Range(df_filtered))
         < Cardinality(Admitted(selected_lines, selected_type, "Toutes"))

\* C3: in the prepared frame and in every filtered view, before and after any
\* filter interaction, a record is "RER" iff its line is A, B, C, D or E and
\* "Métro" otherwise, and is in "Paris" iff 75000 <= postal code < 76000 and
\* in "Banlieue" otherwise, the line and postal code being those of the raw
\* row it comes from.
C3_DerivedFields ==
    Ready =>
        \A r \in Range(df) \cup Range(df_filtered) :
            /\ r.ligne = raw[r.idx].ligne
            /\ r.code_postal = raw[r.idx].code_postal
            /\ r.type_ligne =
                 (IF r.ligne \in {<<"A">>, <<"B">>, <<"C">>, <<"D">>, <<"E">>}
                  THEN "RER" ELSE "Métro")
            /\ r.region =
                 (IF 75000 <= r.code_postal /\ r.code_postal < 76000
                  THEN "Paris" ELSE "Banlieue")

C3_Witness ==
    /\ Ready /\ TiesKept
    /\ selected_type = "RER"
    /\ \E r \in Range(df_filtered) : r.region = "Banlieue" /\ r.code_postal = 76000
    /\ \E r \in Range(df) : r.type_ligne = "Métro" /\ r.region = "Paris"

\* C4: every record of the prepared frame has a zone status and an access
\* name; a zone status missing in the raw row is "non renseigné", a missing
\* access name is "Non spécifié", and a value that was present is kept.
C4_DefaultFill ==
    Ready =>
        /\ Len(df) = Len(raw)
        /\ \A r \in Range(df) :
              /\ r.zone_controlee # NaN
              /\ r.nom_acces # NaN
              /\ r.zone_controlee =
                   (IF raw[r.idx].zone_controlee = NaN THEN "non renseigné"
                    ELSE raw[r.idx].zone_controlee)
              /\ r.nom_acces =
                   (IF raw[r.idx].nom_acces = NaN THEN "Non spécifié"
                    ELSE raw[r.idx].nom_acces)

C4_Witness ==
    /\ Ready /\ TiesKept
    /\ \E r \in Range(df) :
          raw[r.idx].zone_controlee = NaN /\ raw[r.idx].nom_acces # NaN
    /\ \E r \in Range(df) :
          raw[r.idx].zone_controlee # NaN /\ raw[r.idx].nom_acces = NaN

\* The custom line order as the specification states it for the line ids of
\* the inputs: 1, 1bis, 2, 10, then the letters.
CustomOrder == <<L1, L1bis, L2, L10, LA, LB>>

Pos(l) == CHOOSE i \in 1..Len(CustomOrder) : CustomOrder[i] = l

\* C5: the legend order lists each line of the displayed records once, numeric
\* lines by integer value, "Nbis" right after N and before N + 1, letters after
\* every numeric line in lexical order.
C5_CustomLineOrder ==
    Ready =>
        /\ Range(category_orders) = Range(Column(df_filtered, "ligne"))
        /\ \A i, j \in 1..Len(category_orders) :
              i < j => Pos(category_orders[i]) < Pos(category_orders[j])

C5_Witness ==
    /\ Ready /\ TiesKept
    /\ Column(raw, "ligne") = <<L2, L1, L1bis, LA, L10, LB>>
    /\ Column(df, "ligne") = <<L1, L10, L1bis, L2, LA, LB>>
    /\ category_orders = <<L1, L1bis, L2, L10, LA, LB>>

\* The frame is ascending in 'ligne' under the order `less`.
Ascending(less(_, _)) ==
    \A i, j \in 1..Len(df) : i < j => ~less(df[j].ligne, df[i].ligne)

IsPermutationOfRaw ==
    /\ Len(df) = Len(raw)
    /\ {df[i].idx : i \in 1..Len(df)} = 1..Len(raw)

SomeTextLine == \E i \in 1..Len(raw) : ~IsDigit(raw[i].ligne)

\* C6 as stated, on the runs in which the sorts kept their ties: the prepared
\* frame is in ascending lexical order of lineId, not numeric order, and
\* records of the same lineId keep their order of the raw input.
C6_LexicalStable ==
    (Ready /\ TiesKept) =>
        /\ Ascending(StrLess)
        /\ \A i, j \in 1..Len(df) :
              (i < j /\ df[i].ligne = df[j].ligne) => df[i].idx < df[j].idx

\* C6 as amended: the prepared frame is a permutation of the raw rows in
\* ascending lineId order, lexical when some lineId is not an integer and
\* numeric when every lineId is an integer; the order among records of the
\* same lineId is not fixed.
C6_SortedByInferredType ==
    Ready =>
        /\ IsPermutationOfRaw
        /\ IF SomeTextLine
           THEN Ascending(StrLess)
           ELSE Ascending(LAMBDA a, b : IntOf(a) < IntOf(b))

C6_Witness ==
    /\ Ready /\ TiesKept
    /\ SomeTextLine
    /\ \E i, j \in 1..Len(df) : i < j /\ df[i].ligne = L10 /\ df[j].ligne = L2
    /\ \E i, j \in 1..Len(df) : i < j /\ df[i].ligne = df[j].ligne

\* C7: once prepared, the frame and the raw input it came from are never
\* written: every later script run leaves records, fields and order as they
\* were.
C7_PreparedFrameImmutable == [][Ready => (df' = df /\ raw' = raw)]_vars

C7_Witness ==
    /\ Ready /\ TiesKept
    /\ selected_type = "Métro"
    /\ Len(df_filtered) > 1
    /\ category_orders # Unique(Column(df_filtered, "ligne"))

\* C8: a raw frame whose width is not 13 makes the first run fail with the
\* error raised by the column assignment; no frame is prepared and nothing
\* is filtered or displayed.
C8_SchemaErrorNoDataset ==
    (ncols # 13 /\ pc # "start") =>
        /\ pc = "failed"
        /\ error = "ValueError"
        /\ Unset
        /\ ~ENABLED Next

C8_Witness == pc = "failed" /\ ncols = 14 /\ error = "ValueError"

\* C9: for every selection, whether the set of lines is empty, holds ids that
\* no record carries or is combined with a type and zone that no record has,
\* the evaluation of the filter never ends in an error; ids that no record
\* carries match nothing, and when no record satisfies the predicates the
\* filtered view is the empty sequence and its per-line and per-zone counts
\* are empty.
C9_FilterNeverRaises ==
    /\ pc \in {"filter", "ready"}
    /\ error = "none"
    /\ Ready =>
          /\ (Admitted(selected_lines, selected_type, selected_zone) = {}) =>
                /\ df_filtered = <<>>
                /\ line_counts = <<>>
                /\ zone_counts = <<>>
          /\ (selected_lines \cap Range(Column(df, "ligne")) = {}) =>
                df_filtered = <<>>
          /\ Range(df_filtered) =
                Admitted(selected_lines \cap Range(Column(df, "ligne")),
                         selected_type, selected_zone)

C9_Witness ==
    /\ Ready
    /\ selected_lines = {L2, L10}
    /\ Range(Column(df, "ligne")) = {L1, LA}
    /\ selected_type = "Tous" /\ selected_zone = "Toutes"
    /\ df_filtered = <<>> /\ line_counts = <<>> /\ zone_counts = <<>>

LineCount(l) == Occurrences(Column(df, "ligne"), l)

FrameLines == Range(Column(df, "ligne"))

Min(a, b) == IF a <= b THEN a ELSE b

\* The entry of line a ranks before the entry of line b when ties in count
\* are broken by the custom line order.
RanksBefore(a, b) ==
    \/ LineCount(a) > LineCount(b)
    \/ LineCount(a) = LineCount(b) /\ Pos(a) < Pos(b)

TopByCustomOrder(top) ==
    /\ \A i, j \in 1..Len(top) : i < j => RanksBefore(top[i].value, top[j].value)
    /\ \A l \in FrameLines \ {top[i].value : i \in 1..Len(top)} :
          \A i \in 1..Len(top) : RanksBefore(top[i].value, l)

\* C10 as stated, on the runs in which the sorts kept their ties: the top
\* lines are in descending count, lines with equal counts in the custom line
\* order, which also decides the tied lines kept.
C10_TiesByCustomOrder ==
    (Ready /\ TiesKept) =>
        TopByCustomOrder(top_lines) /\ TopByCustomOrder(top_text)

TopByCount(top, n) ==
    /\ Len(top) = Min(n, Cardinality(FrameLines))
    /\ \A i \in 1..Len(top) :
          top[i].value \in FrameLines /\ top[i].count = LineCount(top[i].value)
    /\ \A i, j \in 1..Len(top) :
          i < j => (top[i].value # top[j].value /\ top[i].count >= top[j].count)
    /\ \A l \in FrameLines \ {top[i].value : i \in 1..Len(top)} :
          \A i \in 1..Len(top) : top[i].count >= LineCount(l)

\* C10 as amended: the top N lines are N lines of the frame (all of them when
\* there are fewer) with their counts, in non-increasing count, and every line
\* left out has at most the count of every line kept; the order among lines of
\* equal count is not fixed.
C10_TopByDescendingCount ==
    Ready => TopByCount(top_lines, 10) /\ TopByCount(top_text, 4)

\* A truncation that drops a line of smaller count than a line it keeps, and
\* drops a line that the custom order puts before a kept line of its count.
C10_Witness ==
    /\ Ready /\ TiesKept
    /\ Cardinality(FrameLines) > 4
    /\ Len(top_text) = 4
    /\ LET kept == {top_text[i].value : i \in 1..Len(top_text)}
           dropped == FrameLines \ kept
       IN /\ \E k \in kept, l \in dropped : LineCount(k) > LineCount(l)
          /\ \E k \in kept, l \in dropped :
                LineCount(k) = LineCount(l) /\ Pos(l) < Pos(k)
====
